---------------------------- MODULE Spec2Model ----------------------------
(***************************************************************************)
(* Memory-efficient (streaming) attention of xformers:                     *)
(*   - the scalar CPU form    cpu/attention.cpp  (attention,               *)
(*     attention_kernel)                                                   *)
(*   - the tiled CUDA form    cuda/mem_eff_attention/kernel_forward.h      *)
(*     (AttentionKernel::attention_kernel)                                 *)
(*                                                                         *)
(* Numbers.  A scalar_t value is an exact extended rational <<n, d>>:      *)
(* d > 0 is the fraction n/d in lowest terms, <<1,0>> is +infinity,        *)
(* <<-1,0>> is -infinity and <<0,0>> is NaN; the IEEE rules for the        *)
(* special values are kept (inf - inf = NaN, 0 * inf = NaN, x / 0 = inf,   *)
(* 0 / 0 = NaN, every comparison with NaN is false), rounding is not       *)
(* modelled.  std::exp is the exact exponential to base 4 on               *)
(* the half-integers, which is all the scores of the inputs below can be:  *)
(* Exp(a + b) = Exp(a) * Exp(b), Exp(0) = 1, Exp(-inf) = 0.                *)
(***************************************************************************)
EXTENDS Integers, Sequences, FiniteSets, TLC

\* ------------------------------------------------------------ bounds
MaxQueries == 2
MaxKeys == 3
MaxWorkers == 2

\* ------------------------------------------------------------ scalar_t
NaN == <<0, 0>>
PInf == <<1, 0>>
NInf == <<-1, 0>>
Zero == <<0, 1>>
One == <<1, 1>>

Abs(x) == IF x < 0 THEN -x ELSE x
Sign(x) == IF x < 0 THEN -1 ELSE IF x > 0 THEN 1 ELSE 0

RECURSIVE GCD(_, _)
GCD(a, b) == IF b = 0 THEN a ELSE GCD(b, a % b)

\* the fraction n/d (d >= 0) in lowest terms; d = 0 gives a special value
Norm(n, d) ==
    IF d = 0 THEN <<Sign(n), 0>>
    ELSE LET g == GCD(Abs(n), d) IN <<n \div g, d \div g>>

Num(n) == <<n, 1>>
IsNaN(a) == a = NaN
IsFinite(a) == a[2] > 0

Neg(a) == <<-a[1], a[2]>>

Add(a, b) ==
    IF IsNaN(a) \/ IsNaN(b) THEN NaN
    ELSE IF a[2] = 0 /\ b[2] = 0 THEN (IF a[1] = b[1] THEN a ELSE NaN)
    ELSE IF a[2] = 0 THEN a
    ELSE IF b[2] = 0 THEN b
    ELSE LET g == GCD(a[2], b[2])
         IN Norm(a[1] * (b[2] \div g) + b[1] * (a[2] \div g),
                 (a[2] \div g) * b[2])

Sub(a, b) == Add(a, Neg(b))

Mul(a, b) ==
    IF a[2] = 0 \/ b[2] = 0 THEN <<Sign(a[1]) * Sign(b[1]), 0>>
    ELSE LET x == Norm(a[1], b[2])
             y == Norm(b[1], a[2])
         IN <<x[1] * y[1], x[2] * y[2]>>

\* 1 / a; the sign of a zero is not kept, 1 / 0 is +infinity
Inv(a) ==
    IF a[1] < 0 THEN <<-a[2], -a[1]>> ELSE <<a[2], a[1]>>

Div(a, b) == Mul(a, Inv(b))

\* a > b as IEEE compares: false when either is NaN
Gt(a, b) ==
    IF IsNaN(a) \/ IsNaN(b) THEN FALSE
    ELSE IF a[2] = 0 /\ b[2] = 0 THEN a[1] > b[1]
    ELSE a[1] * b[2] > b[1] * a[2]

Le(a, b) == ~IsNaN(a) /\ ~IsNaN(b) /\ ~Gt(a, b)

\* std::exp, to base 4: Exp(n/2) = 2^n
Exp(a) ==
    IF a[2] = 0 THEN (IF a = NInf THEN Zero ELSE a)
    ELSE LET h == (2 * a[1]) \div a[2]
         IN IF h >= 0 THEN <<2 ^ h, 1>> ELSE <<1, 2 ^ (-h)>>

\* the arguments Exp is exact on
ExpExact(a) == a[2] \in {0, 1, 2}

\* std::sqrt on the head dimensions used (perfect squares)
Sqrt(k) == Num(CHOOSE r \in 0..k : r * r = k)

RECURSIVE SumSeq(_)
SumSeq(s) == IF s = <<>> THEN Zero ELSE Add(Head(s), SumSeq(Tail(s)))

\* ------------------------------------------------------------ tensors
\* A tensor: its sizes (the rank is their number), whether it is contiguous,
\* its element type, and its elements in row-major order (an accessor's
\* x[i][j].data()[k] is the element at offset i*stride0 + j*stride1 + k).
Tensor(sizes, contig, dtype, data) ==
    [sizes |-> sizes, contig |-> contig, dtype |-> dtype, data |-> data]

Dim(t) == Len(t.sizes)
Size(t, d) == t.sizes[d + 1]

\* memory that at::empty returned and nothing has written yet
Uninit == <<0, -1>>

RECURSIVE Numel(_)
Numel(sizes) == IF sizes = <<>> THEN 1 ELSE Head(sizes) * Numel(Tail(sizes))

Empty(sizes, dtype) ==
    Tensor(sizes, TRUE, dtype, [o \in 1..Numel(sizes) |-> Uninit])

\* offset of x[i][j][k] in a contiguous rank-3 tensor
Offset(t, i, j, k) == i * (Size(t, 1) * Size(t, 2)) + j * Size(t, 2) + k

InBounds(t, o) == o >= 0 /\ o < Len(t.data)

\* what a read outside the allocation, or of unwritten memory, may return
Garbage == {Zero, One}

\* x[i][j].data()[k]; g is what the read returns when it leaves the allocation
At(t, i, j, k, g) ==
    LET o == Offset(t, i, j, k)
    IN IF InBounds(t, o) THEN t.data[o + 1] ELSE g

\* ------------------------------------------------------------ inputs
HeadDims == {1, 4}
BlockSizes == {1, 2}

Ones(K, v) == [k \in 1..K |-> Num(v)]
Zeros(K) == [k \in 1..K |-> Zero]
E1(K) == [k \in 1..K |-> IF k = 1 THEN One ELSE Zero]

QueryRows(K) == {Ones(K, 1), Ones(K, -1)}
KeyRows(K) == {Zeros(K), E1(K), Ones(K, 1)}
ValuePatterns == {"asc", "sq"}

RECURSIVE Flatten(_)
Flatten(rows) ==
    IF rows = <<>> THEN <<>> ELSE Head(rows) \o Flatten(Tail(rows))

ValueRow(pat, l, Kv) ==
    [k \in 1..Kv |-> IF pat = "asc" THEN Num(l + k) ELSE Num(l * l - k + 1)]

\* the contiguous float tensors of shape (B, n, K) with rows from rowset
Inputs(B, n, K, rowset) ==
    { Tensor(<<B, n, K>>, TRUE, "float", Flatten(rows)) :
        rows \in [1..(B * n) -> rowset] }

ValueInputs(B, n, Kv) ==
    { Tensor(<<B, n, Kv>>, TRUE, "float",
             Flatten([l \in 1..(B * n) |-> ValueRow(pat, l, Kv)])) :
        pat \in ValuePatterns }

\* a tensor of the given rank (2 or 3) whose elements are all e
Filled(rank, B, n, K, contig, dtype, e) ==
    LET sizes == IF rank = 3 THEN <<B, n, K>> ELSE <<n, K>>
    IN Tensor(sizes, contig, dtype, [o \in 1..Numel(sizes) |-> e])

\* a tensor of the given rank whose elements count up from 1
Counting(rank, B, n, K, contig, dtype) ==
    LET sizes == IF rank = 3 THEN <<B, n, K>> ELSE <<n, K>>
    IN Tensor(sizes, contig, dtype, [o \in 1..Numel(sizes) |-> Num(o)])

\* ------------------------------------------------------------ state
VARIABLES
    query, key, value,      \* the three inputs of attention
    hpc, failure,           \* attention(): where the host function is, its error
    res,                    \* attention(): the output tensor of the scalar form
    cpu,                    \* attention_kernel (scalar): its locals
    reswrites,              \* how often each row of res has been written
    kQueriesPerBlock,       \* AttentionKernel: template parameter
    kKeysPerBlock,          \* AttentionKernel: template parameter
    p,                      \* AttentionKernel::Params
    output,                 \* p.output_ptr: the output of the tiled form
    logsumexp,              \* p.logsumexp_ptr: the log-sum-exp output
    grid,                   \* the launch: "wait", "run" or "done"
    finished,               \* the (batch, query-block) units that returned
    blk,                    \* the running unit: shared storage and registers
    outlog,                 \* per output row: the accesses, in order
    num_threads,            \* at::get_num_threads()
    buffer,                 \* attention(): the scratch rows, one per thread
    cpuq,                   \* parallel_for: the workers that are not stepping
    parked,                 \* the launch: the units that are not stepping
    kPreloadV,              \* AttentionKernel: compile-time constant
    lane,                   \* one unit: where each of its lanes is
    smem,                   \* one unit: the accesses to shared storage
    sp                      \* spmm_sputnik: its arguments and locals

hostvars == <<hpc, failure, res, cpu, reswrites, num_threads, buffer, cpuq>>
tilevars == <<kQueriesPerBlock, kKeysPerBlock, p, output, logsumexp, grid,
              finished, blk, outlog, parked>>
lanevars == <<kPreloadV, lane, smem>>
spmmvars == <<sp>>
vars == <<query, key, value, hpc, failure, res, cpu, reswrites,
          kQueriesPerBlock, kKeysPerBlock, p, output, logsumexp, grid,
          finished, blk, outlog, num_threads, buffer, cpuq, parked,
          kPreloadV, lane, smem, sp>>

\* ------------------------------------------------------------ attention()
\* the tensor a variable holds before at::empty has made one
NoTensor == Tensor(<<>>, TRUE, "none", <<>>)

\* the element types AT_DISPATCH_FLOATING_TYPES has a case for
FloatingTypes == {"float", "double"}

\* lines 80-84 without the check of line 84
DimCheckNoBatch ==
    IF Dim(query) # Dim(key) THEN "dim"
    ELSE IF Dim(query) # 3 THEN "dim"
    ELSE IF Size(query, 2) # Size(key, 2) THEN "feature"
    ELSE "none"

\* lines 80-84: the TORCH_CHECKs on ranks and sizes, in their order; the
\* name of the first one that fails, "none" when all pass
DimCheck ==
    IF Dim(query) # Dim(key) THEN "dim"
    ELSE IF Dim(query) # 3 THEN "dim"
    ELSE IF Size(query, 2) # Size(key, 2) THEN "feature"
    ELSE IF Size(query, 0) # Size(key, 0) THEN "batch"
    ELSE "none"

HostCheckDims ==
    /\ hpc = "check"
    /\ IF DimCheck = "none"
       THEN hpc' = "contig" /\ UNCHANGED failure
       ELSE hpc' = "failed" /\ failure' = DimCheck
    /\ UNCHANGED <<query, key, value, res, cpu, reswrites, num_threads,
                   buffer, cpuq>>
    /\ UNCHANGED <<tilevars, lanevars, spmmvars>>

\* lines 102-108: res = at::empty({B, M, K}, query.options())
ResSizes == <<Size(query, 0), Size(query, 1), Size(query, 2)>>

\* lines 98-100 placed after the allocation of line 108
HostCheckContiguousLate ==
    /\ hpc = "contig"
    /\ res' = Empty(ResSizes, query.dtype)
    /\ IF query.contig /\ key.contig /\ value.contig
       THEN hpc' = "alloc" /\ UNCHANGED failure
       ELSE hpc' = "failed" /\ failure' = "contiguous"
    /\ UNCHANGED <<query, key, value, cpu, reswrites, num_threads, buffer,
                   cpuq>>
    /\ UNCHANGED <<tilevars, lanevars, spmmvars>>

\* lines 98-100: query, key and value must be contiguous
HostCheckContiguous ==
    /\ hpc = "contig"
    /\ IF query.contig /\ key.contig /\ value.contig
       THEN hpc' = "alloc" /\ UNCHANGED failure
       ELSE hpc' = "failed" /\ failure' = "contiguous"
    /\ UNCHANGED <<query, key, value, res, cpu, reswrites, num_threads,
                   buffer, cpuq>>
    /\ UNCHANGED <<tilevars, lanevars, spmmvars>>

\* lines 102-112: the output and the scratch buffer are allocated
HostAllocate ==
    /\ hpc = "alloc"
    /\ res' = Empty(ResSizes, query.dtype)
    /\ reswrites' = [r \in (0..(ResSizes[1] - 1)) \X (0..(ResSizes[2] - 1))
                       |-> 0]
    /\ buffer' = Empty(<<num_threads, 1, Size(query, 2)>>, query.dtype)
    /\ hpc' = "dispatch"
    /\ UNCHANGED <<query, key, value, failure, cpu, num_threads, cpuq>>
    /\ UNCHANGED <<tilevars, lanevars, spmmvars>>

\* Tensor::accessor<scalar_t, 3>() of lines 117-121: the tensor must have
\* rank 3 and elements of type scalar_t
AccessorOk(t, scalar_t) == Dim(t) = 3 /\ t.dtype = scalar_t

\* lines 114-124: the dispatch on query's element type, the accessors, and
\* the call of the kernel
HostDispatch ==
    /\ hpc = "dispatch"
    /\ IF query.dtype \notin FloatingTypes
       THEN hpc' = "failed" /\ failure' = "dtype"
       ELSE IF \E t \in {res, query, key, value, buffer} :
                     ~AccessorOk(t, query.dtype)
       THEN hpc' = "failed" /\ failure' = "accessor"
       ELSE hpc' = "kernel" /\ UNCHANGED failure
    /\ UNCHANGED <<query, key, value, res, cpu, reswrites, num_threads,
                   buffer, cpuq>>
    /\ UNCHANGED <<tilevars, lanevars, spmmvars>>

\* line 126: return res
HostReturn ==
    /\ hpc = "return"
    /\ hpc' = "returned"
    /\ UNCHANGED <<query, key, value, failure, res, cpu, reswrites,
                   num_threads, buffer, cpuq>>
    /\ UNCHANGED <<tilevars, lanevars, spmmvars>>

\* ------------------------------------------------------------ scalar form
\* query.size(2), query.size(0), query.size(1), key.size(1)
CpuK == Size(query, 2)
CpuB == Size(query, 0)
CpuM == Size(query, 1)
CpuN == Size(key, 1)

\* the locals of one worker of parallel_for: its thread number, the batch
\* elements [i, end) it still has to do, and the locals of the row loop
CpuLocals(pc, tid, i, end, j, l, m, s, si, md, sd) ==
    [pc |-> pc, tid |-> tid, i |-> i, end |-> end, j |-> j, l |-> l,
     m_prime |-> m, s_prime |-> s, si |-> si, m_delta_arg |-> md,
     s_delta_arg |-> sd]

\* attention_kernel before parallel_for
CpuStart == CpuLocals("fork", 0, 0, 0, 0, 0, Zero, Zero, Zero, Zero, Zero)

\* the worker that runs f(start, end) as thread tid
CpuWorker(tid, start, end) ==
    CpuLocals("row", tid, start, end, 0, 0, Zero, Zero, Zero, Zero, Zero)

\* at::parallel_for(0, B, grain_size, f): the batch elements are cut into
\* chunks of consecutive elements, each chunk given to one thread of the
\* num_threads threads; sched[i] is the thread of element i
Schedules ==
    { sched \in [0..(CpuB - 1) -> 0..(num_threads - 1)] :
        \A a \in 0..(CpuB - 1), b \in 0..(CpuB - 1), c \in 0..(CpuB - 1) :
            (a < b /\ b < c /\ sched[a] = sched[c]) => sched[b] = sched[a] }

Workers(sched) ==
    { CpuWorker(t,
                CHOOSE a \in DOMAIN sched :
                    sched[a] = t /\ \A b \in DOMAIN sched : sched[b] = t => a <= b,
                1 + CHOOSE a \in DOMAIN sched :
                    sched[a] = t /\ \A b \in DOMAIN sched : sched[b] = t => a >= b) :
        t \in {sched[a] : a \in DOMAIN sched} }

\* line 36: parallel_for starts its workers
CpuParallelFor ==
    /\ hpc = "kernel" /\ cpu.pc = "fork"
    /\ \E sched \in Schedules :
        \E w \in Workers(sched) :
            cpu' = w /\ cpuq' = Workers(sched) \ {w}
    /\ UNCHANGED <<query, key, value, hpc, failure, res, reswrites,
                   num_threads, buffer>>
    /\ UNCHANGED <<tilevars, lanevars, spmmvars>>

\* another worker takes the next step
CpuSwitch ==
    /\ hpc = "kernel" /\ cpu.pc # "fork"
    /\ \E w \in cpuq :
        /\ w.i < w.end
        /\ cpu' = w
        /\ cpuq' = (cpuq \ {w}) \cup {cpu}
    /\ UNCHANGED <<query, key, value, hpc, failure, res, reswrites,
                   num_threads, buffer>>
    /\ UNCHANGED <<tilevars, lanevars, spmmvars>>

\* line 39 with one scratch row for all threads
BufRowShared(w) == 0

\* line 39: buf = buffer[at::get_thread_num()][0].data()
BufRow(w) == w.tid

\* buf[k - 1] of the stepping worker; g is what a read outside buffer returns
Buf(k, g) == At(buffer, BufRow(cpu), 0, k - 1, g)

\* buffer with row written to the stepping worker's buf
BufStore(row) ==
    [buffer EXCEPT !.data =
        [o \in 1..Len(buffer.data) |->
           LET k == o - Offset(buffer, BufRow(cpu), 0, 0)
           IN IF k \in 1..Len(row) THEN row[k] ELSE buffer.data[o]]]

\* si += aar[k] * bar[k] over k < K, from si = 0
RECURSIVE Dot(_, _, _, _, _, _)
Dot(a, i, j, b, l, k) ==
    IF k = 0 THEN Zero
    ELSE Add(Dot(a, i, j, b, l, k - 1),
             Mul(At(a, i, j, k - 1, Zero), At(b, i, l, k - 1, Zero)))

\* the raw score the scalar form folds for query row j and key row l
CpuScore(i, j, l) == Dot(query, i, j, key, l, CpuK)

\* lines 41-45 without the fill_zero of line 42
CpuRowInitNoFill ==
    /\ hpc = "kernel" /\ cpu.pc = "row"
    /\ cpu.i < cpu.end /\ cpu.j < CpuM
    /\ cpu' = [cpu EXCEPT !.pc = "keys", !.l = 0, !.s_prime = Zero,
                          !.m_prime = NInf]
    /\ UNCHANGED <<query, key, value, hpc, failure, res, reswrites,
                   num_threads, buffer, cpuq>>
    /\ UNCHANGED <<tilevars, lanevars, spmmvars>>

\* lines 41-45: a query row starts: zero buf, s_prime = 0, m_prime = -inf
CpuRowInit ==
    /\ hpc = "kernel" /\ cpu.pc = "row"
    /\ cpu.i < cpu.end /\ cpu.j < CpuM
    /\ cpu' = [cpu EXCEPT !.pc = "keys", !.l = 0, !.s_prime = Zero,
                          !.m_prime = NInf]
    /\ buffer' = BufStore(Zeros(CpuK))
    /\ UNCHANGED <<query, key, value, hpc, failure, res, reswrites,
                   num_threads, cpuq>>
    /\ UNCHANGED <<tilevars, lanevars, spmmvars>>

\* line 52 with the comparison turned round
CpuMaxReversed(si, m_prime) == IF Gt(m_prime, si) THEN si ELSE m_prime

\* line 52: m_i = si > m_prime ? si : m_prime
CpuMax(si, m_prime) == IF Gt(si, m_prime) THEN si ELSE m_prime

\* lines 46-64: one key is folded into buf, s_prime and m_prime
CpuFold ==
    /\ hpc = "kernel" /\ cpu.pc = "keys" /\ cpu.l < CpuN
    /\ \E g \in (IF \A k \in 0..(CpuK - 1) :
                       InBounds(value, Offset(value, cpu.i, cpu.l, k))
                 THEN {Zero} ELSE Garbage) :
        LET si == CpuScore(cpu.i, cpu.j, cpu.l)
            m_i == CpuMax(si, cpu.m_prime)
            m_delta == Exp(Sub(cpu.m_prime, m_i))
            s_delta == Exp(Sub(si, m_i))
        IN /\ buffer' = BufStore([k \in 1..CpuK |->
                                    Add(Mul(Buf(k, Zero), m_delta),
                                        Mul(At(value, cpu.i, cpu.l, k - 1, g),
                                            s_delta))])
           /\ cpu' = [cpu EXCEPT
                        !.s_prime = Add(Mul(cpu.s_prime, m_delta), s_delta),
                        !.m_prime = m_i,
                        !.si = si,
                        !.m_delta_arg = Sub(cpu.m_prime, m_i),
                        !.s_delta_arg = Sub(si, m_i),
                        !.l = cpu.l + 1]
    /\ UNCHANGED <<query, key, value, hpc, failure, res, reswrites,
                   num_threads, cpuq>>
    /\ UNCHANGED <<tilevars, lanevars, spmmvars>>

\* lines 65-68: the row is normalised and written: oo[k] = buf[k] / s_prime
CpuWriteRow ==
    /\ hpc = "kernel" /\ cpu.pc = "keys" /\ cpu.l >= CpuN
    /\ res' = [res EXCEPT !.data =
                 [o \in 1..Len(res.data) |->
                    IF /\ o - 1 >= Offset(res, cpu.i, cpu.j, 0)
                       /\ o - 1 < Offset(res, cpu.i, cpu.j, 0) + CpuK
                    THEN Div(Buf(o - Offset(res, cpu.i, cpu.j, 0), Zero),
                             cpu.s_prime)
                    ELSE res.data[o]]]
    /\ reswrites' = [reswrites EXCEPT ![<<cpu.i, cpu.j>>] = @ + 1]
    /\ cpu' = [cpu EXCEPT !.pc = "row", !.j = cpu.j + 1]
    /\ UNCHANGED <<query, key, value, hpc, failure, num_threads, buffer, cpuq>>
    /\ UNCHANGED <<tilevars, lanevars, spmmvars>>

\* lines 40-41: the rows of batch element i are done, the next one starts
CpuNextBatch ==
    /\ hpc = "kernel" /\ cpu.pc = "row"
    /\ cpu.i < cpu.end /\ cpu.j >= CpuM
    /\ cpu' = [cpu EXCEPT !.i = cpu.i + 1, !.j = 0]
    /\ UNCHANGED <<query, key, value, hpc, failure, res, reswrites,
                   num_threads, buffer, cpuq>>
    /\ UNCHANGED <<tilevars, lanevars, spmmvars>>

\* line 71: parallel_for returns once every worker has done its elements
CpuDone ==
    /\ hpc = "kernel" /\ cpu.pc = "row" /\ cpu.i >= cpu.end
    /\ \A w \in cpuq : w.i >= w.end
    /\ cpu' = [cpu EXCEPT !.pc = "done"]
    /\ hpc' = "return"
    /\ UNCHANGED <<query, key, value, failure, res, reswrites, num_threads,
                   buffer, cpuq>>
    /\ UNCHANGED <<tilevars, lanevars, spmmvars>>

CpuKernel ==
    \/ CpuParallelFor \/ CpuRowInit \/ CpuFold \/ CpuWriteRow \/ CpuNextBatch
    \/ CpuDone

\* ------------------------------------------------------------ tiled form
kAlignLSE == 32

CeilDiv(a, b) == (a + b - 1) \div b
Min(a, b) == IF a < b THEN a ELSE b

\* Params of a launch on query, key and value (the pointers are the tensors)
ParamsOf(q, k, v, lse) ==
    [head_dim |-> Size(q, 2), head_dim_value |-> Size(v, 2),
     num_queries |-> Size(q, 1), num_keys |-> Size(k, 1),
     num_batches |-> Size(q, 0), logsumexp_ptr |-> lse]

\* the Params of no launch
NoParams ==
    [head_dim |-> 0, head_dim_value |-> 0, num_queries |-> 0, num_keys |-> 0,
     num_batches |-> 0, logsumexp_ptr |-> FALSE]

\* Params::advance_batches: lse_dim, the stride of a batch element in logsumexp
LseDim == CeilDiv(p.num_queries, kAlignLSE) * kAlignLSE

\* Params::getBlocksGrid: the units (blockIdx.z, blockIdx.y) of a launch
Units ==
    (0..(p.num_batches - 1)) \X
    (0..(CeilDiv(p.num_queries, kQueriesPerBlock) - 1))

\* the threads that own a row of m_prime, s_prime and mi
RowThreads == 0..(kQueriesPerBlock - 1)

Idle == [pc |-> "idle", batch_id |-> 0, block_y |-> 0, iter_key_start |-> 0,
         blockN |-> 0, m_prime |-> <<>>, s_prime |-> <<>>, mi |-> <<>>,
         accum |-> <<>>, si |-> <<>>, scores |-> <<>>, m_args |-> <<>>,
         s_args |-> <<>>, blocks |-> <<>>]

\* query_start() without the block size
QueryStartUnscaled == blk.block_y

\* query_start()
QueryStart == blk.block_y * kQueriesPerBlock

\* lines 313-316
ProblemSize0M == Min(kQueriesPerBlock, p.num_queries - QueryStart)
ProblemSize0N == Min(kKeysPerBlock, p.num_keys - blk.iter_key_start)

\* line 437 with > for >=
IsLastStrict == blk.iter_key_start + kKeysPerBlock > p.num_keys

\* line 437
IsLast == blk.iter_key_start + kKeysPerBlock >= p.num_keys
\* line 507
IsFirst == blk.iter_key_start = 0

\* line 446: the column blocks of the second matmul
NBlockN == CeilDiv(p.head_dim_value, kKeysPerBlock)

\* a launch starts once the scalar form has returned (both only read the inputs)
GridLaunch ==
    /\ grid = "wait" /\ hpc = "return"
    /\ grid' = "run"
    /\ UNCHANGED <<query, key, value, parked, kQueriesPerBlock, kKeysPerBlock, p,
                   output, logsumexp, finished, blk, outlog>>
    /\ UNCHANGED <<hostvars, lanevars, spmmvars>>

\* a thread block is scheduled: attention_kernel_batched, lines 614-616
TileStart ==
    /\ grid = "run" /\ blk.pc = "idle"
    /\ \E u \in (Units \ finished) \ {<<w.batch_id, w.block_y>> : w \in parked} :
        blk' = [Idle EXCEPT !.pc = "init", !.batch_id = u[1], !.block_y = u[2]]
    /\ UNCHANGED <<query, key, value, parked, kQueriesPerBlock, kKeysPerBlock, p,
                   output, logsumexp, grid, finished, outlog>>
    /\ UNCHANGED <<hostvars, lanevars, spmmvars>>

\* the stepping unit waits and another thread block steps: a unit that has
\* not started, or one that waits
TileSwitch ==
    /\ grid = "run"
    /\ \/ /\ blk.pc # "idle" /\ Cardinality(parked) < MaxWorkers - 1
          /\ parked' = parked \cup {blk}
          /\ blk' = Idle
       \/ \E w \in parked :
             /\ blk' = w
             /\ parked' = (parked \ {w}) \cup
                              (IF blk.pc = "idle" THEN {} ELSE {blk})
    /\ UNCHANGED <<query, key, value, kQueriesPerBlock, kKeysPerBlock, p,
                   output, logsumexp, grid, finished, outlog>>
    /\ UNCHANGED <<hostvars, lanevars, spmmvars>>

\* lines 304-308: s_prime = 0 and m_prime = -inf for every row of the block
TileInit ==
    /\ blk.pc = "init"
    /\ blk' = [blk EXCEPT !.pc = "loop",
                          !.s_prime = [t \in 1..kQueriesPerBlock |-> Zero],
                          !.m_prime = [t \in 1..kQueriesPerBlock |-> NInf],
                          !.mi = [t \in 1..kQueriesPerBlock |-> Uninit]]
    /\ UNCHANGED <<query, key, value, parked, kQueriesPerBlock, kKeysPerBlock, p,
                   output, logsumexp, grid, finished, outlog>>
    /\ UNCHANGED <<hostvars, lanevars, spmmvars>>

\* lines 311-390: the first matmul, a tile of Q @ K.T in the registers; the
\* predicated iterators read rows and columns outside the problem size as 0
TileMM0 ==
    /\ blk.pc = "loop" /\ blk.iter_key_start < p.num_keys
    /\ blk' = [blk EXCEPT
                 !.pc = "mi",
                 !.accum =
                    [r \in 1..kQueriesPerBlock |->
                       [c \in 1..kKeysPerBlock |->
                          IF r <= ProblemSize0M /\ c <= ProblemSize0N
                          THEN Dot(query, blk.batch_id, QueryStart + r - 1,
                                   key, blk.iter_key_start + c - 1, p.head_dim)
                          ELSE Zero]]]
    /\ UNCHANGED <<query, key, value, parked, kQueriesPerBlock, kKeysPerBlock, p,
                   output, logsumexp, grid, finished, outlog>>
    /\ UNCHANGED <<hostvars, lanevars, spmmvars>>

\* lines 391-396: mi[thread] = m_prime[thread]
TileLoadMi ==
    /\ blk.pc = "mi"
    /\ blk' = [blk EXCEPT !.pc = "update", !.mi = blk.m_prime]
    /\ UNCHANGED <<query, key, value, parked, kQueriesPerBlock, kKeysPerBlock, p,
                   output, logsumexp, grid, finished, outlog>>
    /\ UNCHANGED <<hostvars, lanevars, spmmvars>>

\* line 423: the scale handed to the updater
Scale == Div(One, Sqrt(p.head_dim))

RECURSIVE MaxOver(_, _)
MaxOver(m, s) ==
    IF s = <<>> THEN m
    ELSE MaxOver(IF Gt(Head(s), m) THEN Head(s) ELSE m, Tail(s))

\* ScalingCoefsUpdater::update (attention_scaling_coefs_updater.h), as the
\* call at lines 409-424 and section 4.1 of the design describe it, for one
\* row: row is the tile's row of raw products, n the number of its columns
\* that are keys.  Gives the row's new mi, m_prime, s_prime and the weights.
UpdateRow(row, n, mi_old, m_prime_old, s_prime_old, scale) ==
    LET scores == [c \in 1..n |-> Mul(row[c], scale)]
        mi_new == MaxOver(mi_old, scores)
        corr == Exp(Sub(m_prime_old, mi_new))
        w == [c \in 1..Len(row) |->
                IF c <= n THEN Exp(Sub(scores[c], mi_new)) ELSE Zero]
    IN [mi |-> mi_new,
        m_prime |-> corr,
        s_prime |-> Add(Mul(s_prime_old, corr), SumSeq(w)),
        w |-> w,
        scores |-> scores,
        m_arg |-> Sub(m_prime_old, mi_new),
        s_args |-> [c \in 1..n |-> Sub(scores[c], mi_new)]]

\* a key block the unit folds: its first key, how many keys, and the flags
\* the epilogue of the block is given
KeyBlock(start, n, first, last) ==
    [start |-> start, n |-> n, first |-> first, last |-> last]

\* lines 409-434: the statistics are updated from the tile in the registers,
\* the tile becomes exp(accum * scale - mi) and is stored to si
TileUpdate ==
    /\ blk.pc = "update"
    /\ LET u == [r \in 1..kQueriesPerBlock |->
                   UpdateRow(blk.accum[r], ProblemSize0N, blk.mi[r],
                             blk.m_prime[r], blk.s_prime[r], Scale)]
       IN blk' = [blk EXCEPT
                    !.pc = "mm1", !.blockN = 0,
                    !.mi = [r \in 1..kQueriesPerBlock |-> u[r].mi],
                    !.m_prime = [r \in 1..kQueriesPerBlock |-> u[r].m_prime],
                    !.s_prime = [r \in 1..kQueriesPerBlock |-> u[r].s_prime],
                    !.si = [r \in 1..kQueriesPerBlock |-> u[r].w],
                    !.scores = [r \in 1..kQueriesPerBlock |-> u[r].scores],
                    !.m_args = [r \in 1..kQueriesPerBlock |-> u[r].m_arg],
                    !.s_args = [r \in 1..kQueriesPerBlock |-> u[r].s_args],
                    !.blocks = Append(blk.blocks,
                                      KeyBlock(blk.iter_key_start, ProblemSize0N,
                                               IsFirst, IsLast))]
    /\ UNCHANGED <<query, key, value, parked, kQueriesPerBlock, kKeysPerBlock, p,
                   output, logsumexp, grid, finished, outlog>>
    /\ UNCHANGED <<hostvars, lanevars, spmmvars>>

\* lines 446-476: attn @ V for row r of the block and value column k
RECURSIVE AttnV(_, _, _)
AttnV(r, k, c) ==
    IF c = 0 THEN Zero
    ELSE Add(AttnV(r, k, c - 1),
             Mul(blk.si[r][c],
                 At(value, blk.batch_id, blk.iter_key_start + c - 1, k, Zero)))

\* MemoryEfficientAttentionNormalize (epilogue_rescale_output.h), as lines
\* 485-492 and section 4.3 describe it: alpha * accumulator + beta * source
Normalize(isFirst, isLast, s_prime_r, m_prime_r, acc, source) ==
    LET alpha == IF isLast THEN Div(One, s_prime_r) ELSE One
        beta == Mul(alpha, m_prime_r)
    IN IF isFirst THEN Mul(alpha, acc)
       ELSE Add(Mul(alpha, acc), Mul(beta, source))

\* the output elements column block blockN of the unit covers: lines 493-505
TileElems ==
    { <<r, k>> \in (1..ProblemSize0M) \X (0..(p.head_dim_value - 1)) :
        /\ k >= blk.blockN * kKeysPerBlock
        /\ k < (blk.blockN + 1) * kKeysPerBlock }

\* lines 100-110 without output_ptr += batch_id * head_dim_value * num_queries
OutOffsetNoBatch(r, k) == Offset(output, 0, QueryStart + r - 1, k)

\* advance_batches and lines 493-498: where row r, column k of the unit is
OutOffset(r, k) == Offset(output, blk.batch_id, QueryStart + r - 1, k)

\* the row of the block and the value column an offset of output belongs to
ElemAt(o) ==
    LET row == o \div p.head_dim_value
    IN <<row - blk.batch_id * p.num_queries - QueryStart + 1,
         o % p.head_dim_value>>

\* an access of an output row: by which unit, to which column block
Access(op, batch_id, block_y, blockN) ==
    [op |-> op, unit |-> <<batch_id, block_y>>, blockN |-> blockN]

\* lines 448-547: one column block of the second matmul and its epilogue,
\* which reads the rows back as source unless this is the first key block
TileMM1 ==
    /\ blk.pc = "mm1" /\ blk.blockN < NBlockN
    /\ output' = [output EXCEPT !.data =
          [o \in 1..Len(output.data) |->
             LET e == ElemAt(o - 1)
             IN IF e \in TileElems /\ OutOffset(e[1], e[2]) = o - 1
                THEN Normalize(IsFirst, IsLast, blk.s_prime[e[1]],
                               blk.m_prime[e[1]],
                               AttnV(e[1], e[2], ProblemSize0N),
                               output.data[o])
                ELSE output.data[o]]]
    /\ outlog' =
          [row \in DOMAIN outlog |->
             IF row[1] = blk.batch_id /\ row[2] >= QueryStart
                /\ row[2] < QueryStart + ProblemSize0M
             THEN outlog[row] \o
                  (IF IsFirst THEN <<>>
                   ELSE << Access("read", blk.batch_id, blk.block_y,
                                  blk.blockN) >>) \o
                  << Access("write", blk.batch_id, blk.block_y, blk.blockN) >>
             ELSE outlog[row]]
    /\ blk' = [blk EXCEPT !.blockN = blk.blockN + 1]
    /\ UNCHANGED <<query, key, value, parked, kQueriesPerBlock, kKeysPerBlock, p,
                   logsumexp, grid, finished>>
    /\ UNCHANGED <<hostvars, lanevars, spmmvars>>

\* lines 548-556: m_prime <- mi, and the next key block
TileCommit ==
    /\ blk.pc = "mm1" /\ blk.blockN >= NBlockN
    /\ blk' = [blk EXCEPT !.pc = "loop", !.m_prime = blk.mi,
                          !.iter_key_start = blk.iter_key_start + kKeysPerBlock]
    /\ UNCHANGED <<query, key, value, parked, kQueriesPerBlock, kKeysPerBlock, p,
                   output, logsumexp, grid, finished, outlog>>
    /\ UNCHANGED <<hostvars, lanevars, spmmvars>>

\* an entry of logsumexp: m_prime + log(s_prime), +infinity, or unwritten
LseValue(m, s) == [kind |-> "lse", m |-> m, s |-> s]
LseInf == [kind |-> "inf", m |-> Zero, s |-> Zero]
LseGarbage == [kind |-> "garbage", m |-> Zero, s |-> Zero]

\* lines 562-571 for thread t: the index it writes and what it writes there,
\* or <<>> when it writes nothing
LseWrite(t) ==
    IF ~(p.logsumexp_ptr /\ t < kQueriesPerBlock) THEN <<>>
    ELSE IF QueryStart + t < p.num_queries
    THEN <<blk.batch_id * LseDim + QueryStart + t,
           LseValue(blk.m_prime[t + 1], blk.s_prime[t + 1])>>
    ELSE IF t < kAlignLSE
    THEN <<blk.batch_id * LseDim + QueryStart + t, LseInf>>
    ELSE <<>>

\* lines 558-572: the log-sum-exp of the block's rows is written, padded
\* with +infinity; the unit returns
TileLSE ==
    /\ blk.pc = "loop" /\ blk.iter_key_start >= p.num_keys
    /\ logsumexp' =
          [o \in 1..Len(logsumexp) |->
             LET t == (o - 1) - blk.batch_id * LseDim - QueryStart
             IN IF /\ t \in RowThreads
                   /\ LseWrite(t) # <<>>
                   /\ LseWrite(t)[1] = o - 1
                THEN LseWrite(t)[2]
                ELSE logsumexp[o]]
    /\ finished' = finished \cup {<<blk.batch_id, blk.block_y>>}
    /\ blk' = Idle
    /\ UNCHANGED <<query, key, value, parked, kQueriesPerBlock, kKeysPerBlock, p,
                   output, grid, outlog>>
    /\ UNCHANGED <<hostvars, lanevars, spmmvars>>

\* every unit of the grid has returned
GridDone ==
    /\ grid = "run" /\ blk.pc = "idle" /\ finished = Units
    /\ grid' = "done"
    /\ UNCHANGED <<query, key, value, parked, kQueriesPerBlock, kKeysPerBlock, p,
                   output, logsumexp, finished, blk, outlog>>
    /\ UNCHANGED <<hostvars, lanevars, spmmvars>>

TileKernel ==
    \/ GridLaunch \/ TileStart \/ TileInit \/ TileMM0 \/ TileLoadMi
    \/ TileUpdate \/ TileMM1 \/ TileCommit \/ TileLSE \/ GridDone

\* ------------------------------------------------------------ spmm_sputnik
\* spmm_sputnik before it is called
NoSpmm == [pc |-> "none"]

\* the arguments of spmm_sputnik (b is the dense operand, dense_matrix in
\* LaunchSpmm) and its locals; b, i, j are the loop counters of LaunchSpmm
SpmmCall(dense, values, row_offsets, column_indices, m) ==
    [pc |-> "check", dense_matrix |-> dense, values |-> values,
     row_offsets |-> row_offsets, column_indices |-> column_indices,
     m |-> m, output |-> NoTensor, b |-> 0, i |-> 0, j |-> 0]

\* lines 43-47
SpmmBatch == Size(sp.dense_matrix, 0)
SpmmK == Size(sp.dense_matrix, 1)
SpmmN == Size(sp.dense_matrix, 2)
SpmmNonzeros == Len(sp.column_indices)

\* lines 48-50 with the test on the nonzero count only
SpmmCheckAllBatches ==
    /\ sp.pc = "check"
    /\ sp' = [sp EXCEPT !.pc = IF SpmmNonzeros % 4 = 0
                                THEN "alloc" ELSE "failed"]
    /\ UNCHANGED <<query, key, value>>
    /\ UNCHANGED <<hostvars, tilevars, lanevars>>

\* lines 43-50: TORCH_CHECK(batch == 1 || nonzeros % 4 == 0)
SpmmCheck ==
    /\ sp.pc = "check"
    /\ sp' = [sp EXCEPT !.pc = IF SpmmBatch = 1 \/ SpmmNonzeros % 4 = 0
                                THEN "alloc" ELSE "failed"]
    /\ UNCHANGED <<query, key, value>>
    /\ UNCHANGED <<hostvars, tilevars, lanevars>>

\* line 52: output = at::empty({batch, m, n}, b.options())
SpmmAllocate ==
    /\ sp.pc = "alloc"
    /\ sp' = [sp EXCEPT !.pc = "loop",
                        !.output = Empty(<<SpmmBatch, sp.m, SpmmN>>,
                                         sp.dense_matrix.dtype),
                        !.b = 0, !.i = 0, !.j = 0]
    /\ UNCHANGED <<query, key, value>>
    /\ UNCHANGED <<hostvars, tilevars, lanevars>>

\* element idx of the array behind a data_ptr
Load(t, idx) == IF InBounds(t, idx) THEN t.data[idx + 1] ELSE NaN

\* line 27 without the batch offset
ValuesIndexNoBatch(b, l) == l

\* line 27: values[b * nonzeros + l]
ValuesIndex(b, l) == b * SpmmNonzeros + l

\* line 28: dense_matrix[b * k * n + column_index * n + j]
DenseIndex(b, column_index, j) == b * SpmmK * SpmmN + column_index * SpmmN + j

\* lines 24-29: the accumulator after the nonzeros lo .. hi - 1 of the row
RECURSIVE Accumulator(_, _, _, _)
Accumulator(b, j, lo, hi) ==
    IF hi <= lo THEN Zero
    ELSE Add(Accumulator(b, j, lo, hi - 1),
             Mul(Load(sp.values, ValuesIndex(b, hi - 1)),
                 Load(sp.dense_matrix,
                      DenseIndex(b, sp.column_indices[hi], j))))

\* lines 21-32: one element of the output
SpmmElement ==
    /\ sp.pc = "loop" /\ sp.b < SpmmBatch
    /\ LET acc == Accumulator(sp.b, sp.j, sp.row_offsets[sp.i + 1],
                              sp.row_offsets[sp.i + 2])
           at == sp.b * sp.m * SpmmN + sp.i * SpmmN + sp.j
           lastj == sp.j + 1 >= SpmmN
           lasti == sp.i + 1 >= sp.m
       IN sp' = [sp EXCEPT
                   !.output = [sp.output EXCEPT !.data[at + 1] = acc],
                   !.j = IF lastj THEN 0 ELSE sp.j + 1,
                   !.i = IF ~lastj THEN sp.i ELSE IF lasti THEN 0 ELSE sp.i + 1,
                   !.b = IF lastj /\ lasti THEN sp.b + 1 ELSE sp.b]
    /\ UNCHANGED <<query, key, value>>
    /\ UNCHANGED <<hostvars, tilevars, lanevars>>

\* lines 33 and 67: LaunchSpmm is done, return output
SpmmReturn ==
    /\ sp.pc = "loop" /\ sp.b >= SpmmBatch
    /\ sp' = [sp EXCEPT !.pc = "returned"]
    /\ UNCHANGED <<query, key, value>>
    /\ UNCHANGED <<hostvars, tilevars, lanevars>>

\* the sparse matrices of m rows and k columns in compressed-row form: each
\* row a set of columns, its indices in ascending order
RECURSIVE SortedSeq(_)
SortedSeq(S) ==
    IF S = {} THEN <<>>
    ELSE LET x == CHOOSE x \in S : \A y \in S : x <= y
         IN <<x>> \o SortedSeq(S \ {x})

RECURSIVE ColumnIndices(_, _)
ColumnIndices(rows, n) ==
    IF n = 0 THEN <<>>
    ELSE ColumnIndices(rows, n - 1) \o SortedSeq(rows[n])

RowOffsets(rows) ==
    [i \in 1..(Len(rows) + 1) |-> Len(ColumnIndices(rows, i - 1))]

SpmmDims == {1, 2}
ValueFills == {"ones", "counting"}

InitSpmm ==
    /\ \E batch \in SpmmDims, m \in SpmmDims, k \in SpmmDims, n \in SpmmDims,
          fill \in ValueFills :
        \E rows \in [1..m -> SUBSET (0..(k - 1))] :
            LET column_indices == ColumnIndices(rows, m)
                nonzeros == Len(column_indices)
                values ==
                    Tensor(<<batch, nonzeros>>, TRUE, "float",
                           [o \in 1..(batch * nonzeros) |->
                              IF fill = "ones" THEN One ELSE Num(o)])
            IN sp = SpmmCall(Counting(3, batch, k, n, TRUE, "float"), values,
                             RowOffsets(rows), column_indices, m)
    /\ query = NoTensor /\ key = NoTensor /\ value = NoTensor
    /\ hpc = "none"
    /\ failure = "none"
    /\ res = NoTensor
    /\ reswrites = <<>>
    /\ cpu = CpuStart
    /\ num_threads = 1
    /\ buffer = NoTensor
    /\ cpuq = {}
    /\ kQueriesPerBlock = 1
    /\ kKeysPerBlock = 1
    /\ p = NoParams
    /\ output = NoTensor
    /\ logsumexp = <<>>
    /\ grid = "none"
    /\ finished = {}
    /\ blk = Idle
    /\ outlog = <<>>
    /\ parked = {}
    /\ kPreloadV = FALSE
    /\ lane = <<>>
    /\ smem = <<>>

NextSpmm == SpmmCheck \/ SpmmAllocate \/ SpmmElement \/ SpmmReturn

SpecSpmm == InitSpmm /\ [][NextSpmm]_vars

\* ------------------------------------------------------------ Spec
\* The two kernels on accepted inputs with one batch element and Value as
\* wide as Query: the scalar form runs, then the launch of the tiled form.
Init ==
    /\ \E K \in HeadDims, M \in 1..MaxQueries, N \in 0..MaxKeys :
        /\ query \in Inputs(1, M, K, QueryRows(K))
        /\ key \in Inputs(1, N, K, KeyRows(K))
        /\ value \in ValueInputs(1, N, K)
        /\ res = Empty(<<1, M, K>>, "float")
        /\ reswrites = [r \in {0} \X (0..(M - 1)) |-> 0]
        /\ output = Empty(<<1, M, K>>, "float")
        /\ outlog = [r \in {0} \X (0..(M - 1)) |-> <<>>]
    /\ hpc = "kernel"
    /\ failure = "none"
    /\ cpu = CpuStart
    /\ kQueriesPerBlock \in BlockSizes
    /\ kKeysPerBlock \in BlockSizes
    /\ p = ParamsOf(query, key, value, FALSE)
    /\ logsumexp = <<>>
    /\ grid = "wait"
    /\ finished = {}
    /\ blk = Idle
    /\ num_threads = 1
    /\ buffer = Empty(<<1, 1, Size(query, 2)>>, "float")
    /\ cpuq = {}
    /\ parked = {}
    /\ kPreloadV = FALSE
    /\ lane = <<>>
    /\ smem = <<>>
    /\ sp = NoSpmm

Next == CpuKernel \/ TileKernel

Spec == Init /\ [][Next]_vars

\* ------------------------------------------------------------ SpecUnits
\* The same kernels on several batch elements and query blocks, with Value
\* of its own width; every element of Query and Key is 1.
MaxBatches == 2
ValueDims == {1, 2}

InitUnits ==
    /\ \E B \in 1..MaxBatches, M \in 1..(MaxQueries + 1), N \in 0..MaxKeys,
          Kv \in ValueDims :
        /\ query \in Inputs(B, M, 1, {Ones(1, 1)})
        /\ key \in Inputs(B, N, 1, {Ones(1, 1)})
        /\ value \in ValueInputs(B, N, Kv)
        /\ res = Empty(<<B, M, 1>>, "float")
        /\ reswrites = [r \in (0..(B - 1)) \X (0..(M - 1)) |-> 0]
        /\ output = Empty(<<B, M, Kv>>, "float")
        /\ outlog = [r \in (0..(B - 1)) \X (0..(M - 1)) |-> <<>>]
    /\ hpc = "kernel"
    /\ failure = "none"
    /\ cpu = CpuStart
    /\ kQueriesPerBlock \in BlockSizes
    /\ kKeysPerBlock \in BlockSizes
    /\ p = ParamsOf(query, key, value, FALSE)
    /\ logsumexp = <<>>
    /\ grid = "wait"
    /\ finished = {}
    /\ blk = Idle
    /\ num_threads = 1
    /\ buffer = Empty(<<1, 1, Size(query, 2)>>, "float")
    /\ cpuq = {}
    /\ parked = {}
    /\ kPreloadV = FALSE
    /\ lane = <<>>
    /\ smem = <<>>
    /\ sp = NoSpmm

SpecUnits == InitUnits /\ [][Next]_vars

\* ------------------------------------------------------------ SpecHost
\* attention() from its call: tensors of any rank, shape, layout and element
\* type, and the scalar kernel on the ones it accepts.
HostDims == {1, 2}
DTypes == {"float", "double", "half"}
QueryElems == {One, Num(-1), NInf}

InitHost ==
    /\ \E ranks \in {<<3, 3, 3>>, <<2, 3, 3>>, <<3, 2, 3>>, <<3, 3, 2>>,
                     <<2, 2, 3>>},
          strided \in {"none", "query", "key", "value"},
          dtype \in DTypes,
          Bq \in HostDims, Bk \in HostDims, Kq \in HostDims, Kk \in HostDims,
          Kv \in HostDims, M \in HostDims, N \in HostDims,
          e \in QueryElems :
        /\ query = Filled(ranks[1], Bq, M, Kq, strided # "query", dtype, e)
        /\ key = Filled(ranks[2], Bk, N, Kk, strided # "key", dtype, One)
        /\ value = Counting(ranks[3], Bk, N, Kv, strided # "value", dtype)
    /\ hpc = "check"
    /\ failure = "none"
    /\ res = NoTensor
    /\ reswrites = <<>>
    /\ cpu = CpuStart
    /\ kQueriesPerBlock = 1
    /\ kKeysPerBlock = 1
    /\ p = NoParams
    /\ output = NoTensor
    /\ logsumexp = <<>>
    /\ grid = "wait"
    /\ finished = {}
    /\ blk = Idle
    /\ outlog = <<>>
    /\ num_threads = 1
    /\ buffer = NoTensor
    /\ cpuq = {}
    /\ parked = {}
    /\ kPreloadV = FALSE
    /\ lane = <<>>
    /\ smem = <<>>
    /\ sp = NoSpmm

NextHost ==
    \/ HostCheckDims \/ HostCheckContiguous \/ HostAllocate \/ HostDispatch
    \/ CpuKernel \/ HostReturn

SpecHost == InitHost /\ [][NextHost]_vars

\* ------------------------------------------------------------ SpecLSE
\* A launch of the tiled form with a log-sum-exp output and the block sizes
\* of the source, on inputs with no keys: each unit initialises its
\* statistics and writes its part of logsumexp.
MaxLseQueries == 70
LseBlockSizes == {32, 64}

InitLSE ==
    /\ \E B \in 1..MaxBatches, M \in 0..MaxLseQueries :
        /\ query = Filled(3, B, M, 1, TRUE, "float", One)
        /\ key = Filled(3, B, 0, 1, TRUE, "float", One)
        /\ value = Counting(3, B, 0, 1, TRUE, "float")
        /\ output = Empty(<<B, M, 1>>, "float")
        /\ outlog = [r \in (0..(B - 1)) \X (0..(M - 1)) |-> <<>>]
        /\ \E fill \in {LseGarbage, LseInf} :
             logsumexp = [o \in 1..(B * CeilDiv(M, kAlignLSE) * kAlignLSE)
                            |-> fill]
    /\ kQueriesPerBlock \in LseBlockSizes
    /\ kKeysPerBlock \in LseBlockSizes
    /\ p = ParamsOf(query, key, value, TRUE)
    /\ hpc = "return"
    /\ failure = "none"
    /\ res = NoTensor
    /\ reswrites = <<>>
    /\ cpu = CpuStart
    /\ grid = "wait"
    /\ finished = {}
    /\ blk = Idle
    /\ num_threads = 1
    /\ buffer = NoTensor
    /\ cpuq = {}
    /\ parked = {}
    /\ kPreloadV = FALSE
    /\ lane = <<>>
    /\ smem = <<>>
    /\ sp = NoSpmm

NextLSE == GridLaunch \/ TileStart \/ TileInit \/ TileLSE \/ GridDone

SpecLSE == InitLSE /\ [][NextLSE]_vars

\* ------------------------------------------------------------ SpecWorkers
\* Both forms with concurrent workers: parallel_for runs the batch elements
\* on up to MaxWorkers threads, and up to MaxWorkers thread blocks of the
\* launch are in flight; the workers' steps interleave in every order.
\* Query rows are 1, -1, 1, ... and key rows 1, 0, 1, ...
Signs(B, n) ==
    Tensor(<<B, n, 1>>, TRUE, "float",
           [o \in 1..(B * n) |-> IF o % 2 = 1 THEN One ELSE Num(-1)])

Bits(B, n) ==
    Tensor(<<B, n, 1>>, TRUE, "float",
           [o \in 1..(B * n) |-> IF o % 2 = 1 THEN One ELSE Zero])

InitWorkers ==
    /\ \E B \in 1..MaxBatches, M \in 1..MaxQueries, N \in 0..(MaxKeys - 1) :
        /\ query = Signs(B, M)
        /\ key = Bits(B, N)
        /\ value = Counting(3, B, N, 1, TRUE, "float")
        /\ res = Empty(<<B, M, 1>>, "float")
        /\ reswrites = [r \in (0..(B - 1)) \X (0..(M - 1)) |-> 0]
        /\ output = Empty(<<B, M, 1>>, "float")
        /\ outlog = [r \in (0..(B - 1)) \X (0..(M - 1)) |-> <<>>]
    /\ num_threads \in 1..MaxWorkers
    /\ buffer = Empty(<<num_threads, 1, 1>>, "float")
    /\ hpc = "kernel"
    /\ failure = "none"
    /\ cpu = CpuStart
    /\ cpuq = {}
    /\ kQueriesPerBlock \in BlockSizes
    /\ kKeysPerBlock \in BlockSizes
    /\ p = ParamsOf(query, key, value, FALSE)
    /\ logsumexp = <<>>
    /\ grid = "wait"
    /\ finished = {}
    /\ blk = Idle
    /\ parked = {}
    /\ kPreloadV = FALSE
    /\ lane = <<>>
    /\ smem = <<>>
    /\ sp = NoSpmm

NextWorkers == CpuKernel \/ CpuSwitch \/ TileKernel \/ TileSwitch

SpecWorkers == InitWorkers /\ [][NextWorkers]_vars

\* ------------------------------------------------------------ lanes of a unit
\* The threads of one thread block of attention_kernel, each with its own
\* position; only the accesses to SharedStorage and the barriers are kept.
MaxLanes == 3

\* thread_id() of the threads of the block; line 304 asserts that there are
\* more of them than kQueriesPerBlock
Lanes == 0..(MaxLanes - 1)

LaneStart ==
    [pc |-> "init", iter_key_start |-> 0, blockN |-> 0, line |-> 0,
     bars |-> <<>>]

\* one access of thread t to a part of SharedStorage, made by the named call
\* ("none": by a statement of attention_kernel itself)
SmemAccess(cell, t, op, call) ==
    [cell |-> cell, lane |-> t, op |-> op, call |-> call]

Touch(cells, t, op, call) == {SmemAccess(c, t, op, call) : c \in cells}

\* m_prime, s_prime and mi have one element per query row (lines 278, 283-284)
StatRows(name) == {<<name, r>> : r \in RowThreads}

\* si: every thread stores its fragment of the accumulator (line 433)
SiCells == {<<"si", t>> : t \in Lanes}

\* SharedStorageMM1, lines 251-269: mm and epilogue are two members with
\* kPreloadV and a union without it
MM1Mm == IF kPreloadV THEN <<"mm1.mm", 0>> ELSE <<"mm1", 0>>
MM1Epilogue == IF kPreloadV THEN <<"mm1.epilogue", 0>> ELSE <<"mm1", 0>>

\* SharedStorageAfterMM0, lines 276-281
AfterMM0 == SiCells \cup StatRows("mi") \cup {MM1Mm, MM1Epilogue}

\* SharedStorage, lines 286-289: mm0 and after_mm0 are one union
MM0Cells == AfterMM0

\* the thread arrives at the __syncthreads() of the given line
Wait(l, line) == [l EXCEPT !.pc = "__syncthreads", !.line = line]

\* line 311: the test of the key loop
KeyLoop(l) ==
    IF l.iter_key_start < p.num_keys
    THEN Wait(l, 336)
    ELSE [l EXCEPT !.pc = "lse"]

\* lines 548-554 without the barrier of line 548
AfterColumnsNoBarrier(l) == [l EXCEPT !.pc = "commit"]

\* line 548: after the column loop
AfterColumns(l) == Wait(l, 548)

\* lines 448 and 458-460: the test of the column loop and the barrier that
\* opens its body without kPreloadV
ColumnLoop(l) ==
    IF l.blockN < NBlockN
    THEN IF ~kPreloadV THEN Wait(l, 459) ELSE [l EXCEPT !.pc = "mma_pv"]
    ELSE AfterColumns(l)

\* lines 393-398 with the barrier of line 396 inside the branch of line 393
AfterLoadMiGuarded(t, l) ==
    IF t < kQueriesPerBlock THEN Wait(l, 396) ELSE [l EXCEPT !.pc = "update"]

\* line 396: after the branch of lines 393-395
AfterLoadMi(t, l) == Wait(l, 396)

\* where a thread continues after the barrier it waits at
Continue(l) ==
    CASE l.line = 336 -> [l EXCEPT !.pc = "mm0"]
      [] l.line = 390 -> [l EXCEPT !.pc = "mi"]
      [] l.line = 396 -> [l EXCEPT !.pc = "update"]
      [] l.line = 436 -> ColumnLoop([l EXCEPT !.blockN = 0])
      [] l.line = 459 -> [l EXCEPT !.pc = "mma_pv"]
      [] l.line = 478 -> [l EXCEPT !.pc = "epilogue"]
      [] l.line = 548 -> [l EXCEPT !.pc = "commit"]
      [] l.line = 555 ->
            KeyLoop([l EXCEPT !.iter_key_start = @ + kKeysPerBlock])

\* thread t makes the accesses acc and moves on to l
LaneMove(t, acc, l) ==
    /\ lane' = [lane EXCEPT ![t] = l]
    /\ smem' = smem \cup acc
    /\ UNCHANGED <<query, key, value, kPreloadV>>
    /\ UNCHANGED <<hostvars, tilevars, spmmvars>>

\* lines 304-311: the thread's rows of s_prime and m_prime
LaneInit ==
    \E t \in Lanes :
        /\ lane[t].pc = "init"
        /\ LaneMove(t,
                    IF t < kQueriesPerBlock
                    THEN Touch({<<"s_prime", t>>, <<"m_prime", t>>}, t, "W",
                               "none")
                    ELSE {},
                    KeyLoop(lane[t]))

\* lines 340-390: the first matmul works in shared_storage.mm0
LaneMM0 ==
    \E t \in Lanes :
        /\ lane[t].pc = "mm0"
        /\ LaneMove(t,
                    Touch(MM0Cells, t, "R", "mma") \cup
                    Touch(MM0Cells, t, "W", "mma"),
                    Wait(lane[t], 390))

\* lines 391-396: mi[thread_id()] = m_prime[thread_id()]
LaneLoadMi ==
    \E t \in Lanes :
        /\ lane[t].pc = "mi"
        /\ LaneMove(t,
                    IF t < kQueriesPerBlock
                    THEN {SmemAccess(<<"m_prime", t>>, t, "R", "none"),
                          SmemAccess(<<"mi", t>>, t, "W", "none")}
                    ELSE {},
                    AfterLoadMi(t, lane[t]))

\* lines 398-436: prologueV(0) with kPreloadV, ScalingCoefsUpdater::update on
\* mi, m_prime and s_prime, accumToSmem into si
LaneUpdate ==
    \E t \in Lanes :
        /\ lane[t].pc = "update"
        /\ LaneMove(t,
                    (IF kPreloadV THEN Touch({MM1Mm}, t, "W", "mma_pv")
                     ELSE {}) \cup
                    Touch(StatRows("mi") \cup StatRows("s_prime"), t, "W", "update")
                    \cup
                    Touch(StatRows("mi") \cup StatRows("m_prime") \cup StatRows("s_prime"),
                          t, "R", "update") \cup
                    {SmemAccess(<<"si", t>>, t, "W", "none")},
                    Wait(lane[t], 436))

\* lines 462-479: the second matmul reads si and works in mm1.mm
LaneMmaPV ==
    \E t \in Lanes :
        /\ lane[t].pc = "mma_pv"
        /\ LaneMove(t,
                    Touch(SiCells, t, "R", "mma_pv") \cup
                    Touch({MM1Mm}, t, "R", "mma_pv") \cup
                    Touch({MM1Mm}, t, "W", "mma_pv"),
                    IF ~kPreloadV
                    THEN Wait(lane[t], 478)
                    ELSE [lane[t] EXCEPT !.pc = "epilogue"])

\* lines 481-547: prologueV(blockN + 1) with kPreloadV, then the epilogue,
\* which rescales by m_prime and s_prime and works in mm1.epilogue
LaneEpilogue ==
    \E t \in Lanes :
        /\ lane[t].pc = "epilogue"
        /\ LaneMove(t,
                    (IF kPreloadV /\ lane[t].blockN + 1 < NBlockN
                     THEN Touch({MM1Mm}, t, "W", "mma_pv")
                     ELSE {}) \cup
                    Touch(StatRows("m_prime") \cup StatRows("s_prime"), t, "R",
                          "none") \cup
                    Touch({MM1Epilogue}, t, "R", "epilogue") \cup
                    Touch({MM1Epilogue}, t, "W", "epilogue"),
                    ColumnLoop([lane[t] EXCEPT !.blockN = @ + 1]))

\* lines 550-555: m_prime[thread_id()] = mi[thread_id()]
LaneCommit ==
    \E t \in Lanes :
        /\ lane[t].pc = "commit"
        /\ LaneMove(t,
                    IF t < kQueriesPerBlock
                    THEN {SmemAccess(<<"mi", t>>, t, "R", "none"),
                          SmemAccess(<<"m_prime", t>>, t, "W", "none")}
                    ELSE {},
                    Wait(lane[t], 555))

\* lines 558-572: the thread's element of logsumexp, then the kernel returns
LaneLSE ==
    \E t \in Lanes :
        /\ lane[t].pc = "lse"
        /\ LaneMove(t,
                    IF /\ p.logsumexp_ptr
                       /\ t < kQueriesPerBlock
                       /\ QueryStart + t < p.num_queries
                    THEN Touch({<<"m_prime", t>>, <<"s_prime", t>>}, t, "R",
                               "none")
                    ELSE {},
                    [lane[t] EXCEPT !.pc = "done"])

\* __syncthreads(): once every thread of the block waits at a barrier, all of
\* them pass it; bars records the barriers each thread has passed
LaneSync ==
    /\ \A t \in Lanes : lane[t].pc = "__syncthreads"
    /\ lane' = [t \in Lanes |->
                  Continue([lane[t] EXCEPT !.bars = Append(@, lane[t].line)])]
    /\ smem' = {}
    /\ UNCHANGED <<query, key, value, kPreloadV>>
    /\ UNCHANGED <<hostvars, tilevars, spmmvars>>

\* ------------------------------------------------------------ SpecLanes
\* One thread block of the tiled form, thread by thread, in every order the
\* threads can run in. SpecLanesFair adds that a thread that can run does
\* run: the threads of a resident block are all scheduled.
InitLanes ==
    /\ \E M \in 1..MaxQueries, N \in 0..MaxKeys, Kv \in ValueDims :
        /\ query = Filled(3, 1, M, 1, TRUE, "float", One)
        /\ key = Filled(3, 1, N, 1, TRUE, "float", One)
        /\ value = Counting(3, 1, N, Kv, TRUE, "float")
    /\ kQueriesPerBlock \in {q \in BlockSizes : q < MaxLanes}
    /\ kKeysPerBlock \in BlockSizes
    /\ kPreloadV \in BOOLEAN
    /\ \E lse \in BOOLEAN : p = ParamsOf(query, key, value, lse)
    /\ \E y \in 0..(CeilDiv(p.num_queries, kQueriesPerBlock) - 1) :
        blk = [Idle EXCEPT !.pc = "lanes", !.block_y = y]
    /\ lane = [t \in Lanes |-> LaneStart]
    /\ smem = {}
    /\ output = NoTensor
    /\ outlog = <<>>
    /\ logsumexp = <<>>
    /\ hpc = "none"
    /\ failure = "none"
    /\ res = NoTensor
    /\ reswrites = <<>>
    /\ cpu = CpuStart
    /\ grid = "none"
    /\ finished = {}
    /\ num_threads = 1
    /\ buffer = NoTensor
    /\ cpuq = {}
    /\ parked = {}
    /\ sp = NoSpmm

NextLanes ==
    \/ LaneInit \/ LaneMM0 \/ LaneLoadMi \/ LaneUpdate \/ LaneMmaPV
    \/ LaneEpilogue \/ LaneCommit \/ LaneLSE \/ LaneSync

SpecLanes == InitLanes /\ [][NextLanes]_vars

SpecLanesFair == SpecLanes /\ WF_vars(NextLanes)

\* ------------------------------------------------------------ reference
\* The textbook attention of row j of batch element b: the whole score row
\* (Query_j . Key_l) / sqrt(K), minus its maximum, exponentiated, summed,
\* divided, and multiplied by Value.
RefScore(b, j, l) ==
    Div(Dot(query, b, j, key, l, Size(query, 2)), Sqrt(Size(query, 2)))

RefScores(b, j) == [l \in 1..Size(key, 1) |-> RefScore(b, j, l - 1)]

RefWeights(b, j) ==
    LET sc == RefScores(b, j)
        mx == MaxOver(NInf, sc)
        e == [l \in 1..Len(sc) |-> Exp(Sub(sc[l], mx))]
    IN [l \in 1..Len(sc) |-> Div(e[l], SumSeq(e))]

Textbook(b, j) ==
    LET w == RefWeights(b, j)
    IN [k \in 1..Size(value, 2) |->
          SumSeq([l \in 1..Len(w) |-> Mul(w[l], At(value, b, l - 1, k - 1, NaN))])]

\* row j of batch element b of a rank-3 tensor
Row(t, b, j) == [k \in 1..Size(t, 2) |-> At(t, b, j, k - 1, NaN)]

Rows == DOMAIN reswrites

\* ------------------------------------------------------------ claims
\* C1: with at least one key, every output row of the scalar form (once it
\* is written) and of the tiled form (once the launch is done) equals the
\* textbook result for that row.
C1_StreamingEqualsTextbook ==
    Size(key, 1) >= 1 =>
        /\ \A r \in Rows :
              reswrites[r] >= 1 => Row(res, r[1], r[2]) = Textbook(r[1], r[2])
        /\ grid = "done" =>
              \A r \in Rows : Row(output, r[1], r[2]) = Textbook(r[1], r[2])

\* C2: the tiled form, whatever its block sizes, and the scalar form give
\* the same output rows (stated for inputs with at least one key).
C2_BlockingInvariance ==
    (Size(key, 1) >= 1 /\ grid = "done") =>
        \A r \in Rows : Row(output, r[1], r[2]) = Row(res, r[1], r[2])

\* C3: the raw score either form folds for query row i and key row j is
\* (Query_i . Key_j) / sqrt(K).
C3_ScoreIsScaledDotProduct ==
    /\ (hpc = "kernel" /\ cpu.pc = "keys" /\ cpu.l >= 1) =>
          cpu.si = RefScore(cpu.i, cpu.j, cpu.l - 1)
    /\ blk.pc = "mm1" =>
          \A r \in 1..ProblemSize0M, c \in 1..ProblemSize0N :
             blk.scores[r][c] =
                RefScore(blk.batch_id, QueryStart + r - 1,
                         blk.iter_key_start + c - 1)

\* C4: at every fold step both arguments of exp are <= 0, so the correction
\* factor and every weight are at most 1, and the normalising sum is at most
\* the number of keys folded so far.
C4_ExponentsNonPositive ==
    /\ (cpu.pc = "keys" /\ cpu.l >= 1) =>
          /\ Le(cpu.m_delta_arg, Zero) /\ Le(cpu.s_delta_arg, Zero)
          /\ Le(Exp(cpu.m_delta_arg), One) /\ Le(Exp(cpu.s_delta_arg), One)
          /\ Le(cpu.s_prime, Num(cpu.l))
    /\ blk.pc = "mm1" =>
          \A r \in 1..kQueriesPerBlock :
             /\ Le(blk.m_args[r], Zero) /\ Le(blk.m_prime[r], One)
             /\ \A c \in 1..ProblemSize0N :
                   Le(blk.s_args[r][c], Zero) /\ Le(blk.si[r][c], One)
             /\ Le(blk.s_prime[r], Num(blk.iter_key_start + ProblemSize0N))

\* C4's case: a fold that raised a finite running maximum
C4_Witness ==
    /\ cpu.pc = "keys" /\ cpu.l >= 2
    /\ IsFinite(cpu.m_delta_arg) /\ Gt(Zero, cpu.m_delta_arg)

\* the unit that owns an output row
Owner(r) == <<r[1], r[2] \div kQueriesPerBlock>>

\* how often the tiled form has written (read) column k of output row r
Accesses(op, r, k) ==
    Cardinality({n \in 1..Len(outlog[r]) :
                   /\ outlog[r][n].op = op
                   /\ outlog[r][n].blockN = k \div kKeysPerBlock})

ValueColumns == 0..(p.head_dim_value - 1)
KeyBlocks == CeilDiv(p.num_keys, kKeysPerBlock)

\* C5 as amended: an output row is accessed by its owning unit only; the
\* scalar form writes it once; the tiled form writes each of its elements
\* once per key block and, from the second key block on, reads it back
\* before it writes it.
C5_OwnerWritesOncePerKeyBlock ==
    /\ \A r \in Rows :
          /\ reswrites[r] <= 1
          /\ cpu.pc = "done" => reswrites[r] = 1
          /\ \A n \in 1..Len(outlog[r]) :
                /\ outlog[r][n].unit = Owner(r)
                /\ outlog[r][n].op = "read" =>
                      /\ n > 1 /\ n < Len(outlog[r])
                      /\ outlog[r][n + 1].op = "write"
                      /\ outlog[r][n + 1].blockN = outlog[r][n].blockN
          /\ \A k \in ValueColumns :
                /\ Accesses("write", r, k) <= KeyBlocks
                /\ Owner(r) \in finished =>
                      /\ Accesses("write", r, k) = KeyBlocks
                      /\ Accesses("read", r, k) =
                            IF KeyBlocks = 0 THEN 0 ELSE KeyBlocks - 1

\* C5's case: a row of the second query block of the second batch element
\* written for the second time
C5_Witness ==
    \E r \in Rows :
        /\ r[1] = 1 /\ Owner(r)[2] = 1
        /\ Accesses("write", r, 0) = 2

\* C5 as stated: every output row is written exactly once by its owner and
\* never read back.
C5_WrittenExactlyOnce ==
    \A r \in Rows :
        /\ reswrites[r] <= 1
        /\ \A n \in 1..Len(outlog[r]) :
              outlog[r][n].unit = Owner(r) /\ outlog[r][n].op = "write"
        /\ \A k \in ValueColumns :
              /\ Accesses("write", r, k) <= 1
              /\ Owner(r) \in finished => Accesses("write", r, k) = 1

\* C6: attention returns an array of shape (batch, query length, K_v).
C6_OutputShape ==
    hpc = "returned" =>
        res.sizes = <<Size(query, 0), Size(query, 1), Size(value, 2)>>

\* what C7 lists: a rank that is not 3, differing feature dimensions or
\* batch counts of Query and Key, a non-contiguous input, an element type
\* that is no supported floating-point type
BadRank == Dim(query) # 3 \/ Dim(key) # 3 \/ Dim(value) # 3
FeatureMismatch == ~BadRank /\ Size(query, 2) # Size(key, 2)
BatchMismatch == ~BadRank /\ Size(query, 0) # Size(key, 0)
NonContiguous == ~query.contig \/ ~key.contig \/ ~value.contig
BadType == query.dtype \notin FloatingTypes

\* C7: attention ends in a precondition failure on every input that C7
\* lists: it never reaches the kernel, never returns, and is not stuck
\* before the failure.
C7_RejectsBadInputs ==
    (BadRank \/ FeatureMismatch \/ BatchMismatch \/ NonContiguous \/ BadType)
        => /\ hpc \in {"check", "contig", "alloc", "dispatch", "failed"}
           /\ hpc = "failed" => failure # "none"
           /\ hpc # "failed" => ENABLED NextHost

\* C7's case: the call was rejected for batch counts that differ
C7_Witness == hpc = "failed" /\ failure = "batch" /\ BatchMismatch

\* C8: on an input with differing feature dimensions or a non-contiguous
\* tensor the output is never allocated, no row of it is written and the
\* kernel never starts.
C8_FailsBeforeOutput ==
    (FeatureMismatch \/ NonContiguous) =>
        /\ res = NoTensor /\ reswrites = <<>>
        /\ cpu = CpuStart
        /\ hpc \in {"check", "contig", "failed"}

\* C8's case: the call was rejected for a non-contiguous input
C8_Witness ==
    hpc = "failed" /\ failure = "contiguous" /\ NonContiguous

\* C9: once the launch is done, the log-sum-exp entries from num_queries up
\* to the next multiple of kAlignLSE hold +infinity, in every batch element.
C9_PaddingIsInfinity ==
    grid = "done" =>
        \A b \in 0..(p.num_batches - 1), i \in p.num_queries..(LseDim - 1) :
            logsumexp[b * LseDim + i + 1] = LseInf

\* C10: a query row whose raw scores are all -infinity ends the key loop
\* with s_prime = 0.
C10_MaskedRowSumIsZero ==
    (/\ hpc = "kernel" /\ cpu.pc = "keys" /\ cpu.l = CpuN /\ CpuN >= 1
     /\ \A l \in 0..(CpuN - 1) : CpuScore(cpu.i, cpu.j, l) = NInf)
        => cpu.s_prime = Zero

\* the rows a run of the units one after the other in index order leaves in
\* the output: the textbook row, or with no key 0/0 (scalar form) and the
\* row as it was allocated (tiled form, which writes nothing)
SequentialRow(t, b, j) ==
    IF Size(key, 1) >= 1 THEN Textbook(b, j)
    ELSE [k \in 1..Size(t, 2) |-> IF t = res THEN NaN ELSE Uninit]

\* C11: whatever the schedule of the workers, once parallel_for has returned
\* (the launch is done) the output of the scalar form (of the tiled form)
\* is the one the sequential run in index order produces.
C11_ScheduleIndependent ==
    /\ hpc = "return" =>
          \A r \in Rows : Row(res, r[1], r[2]) = SequentialRow(res, r[1], r[2])
    /\ grid = "done" =>
          \A r \in Rows :
              Row(output, r[1], r[2]) = SequentialRow(output, r[1], r[2])

\* C11's case: two workers of parallel_for ran, and two units of the launch
\* are in flight, both past their first key block
C11_Witness ==
    /\ cpuq # {} /\ grid = "run"
    /\ blk.pc = "mm1" /\ blk.iter_key_start > 0
    /\ \E w \in parked : w.pc = "mm1" /\ w.iter_key_start > 0

\* the raw scores of the keys a worker of the scalar form has folded
SeenScores(i, j, l) == [n \in 1..l |-> CpuScore(i, j, n - 1)]

\* sum over the seen keys of exp(score_k - m)
RunSum(scores, m) ==
    SumSeq([n \in 1..Len(scores) |-> Exp(Sub(scores[n], m))])

\* sum over the seen keys of exp(score_k - m) * value_k, feature k
RunAcc(b, first, scores, m, k) ==
    SumSeq([n \in 1..Len(scores) |->
              Mul(Exp(Sub(scores[n], m)),
                  At(value, b, first + n - 1, k - 1, NaN))])

\* the scaled scores of the keys a unit of the tiled form has folded for
\* row r of its block
TileSeenScores(r) ==
    [n \in 1..Min(blk.iter_key_start, p.num_keys) |->
        Mul(Dot(query, blk.batch_id, QueryStart + r - 1, key, n - 1, p.head_dim),
            Scale)]

\* C14: in a query row of the scalar form, and between two key blocks of the
\* tiled form, m is the maximum of the scores folded so far (-infinity
\* before the first), s the sum of exp(score_k - m) over them (0 before the
\* first) and acc the sum of exp(score_k - m) * value_k (0 before the
\* first), whatever the scratch buffer held before.
C14_FoldInvariant ==
    /\ (hpc = "kernel" /\ cpu.pc = "keys") =>
          LET sc == SeenScores(cpu.i, cpu.j, cpu.l)
          IN /\ cpu.m_prime = MaxOver(NInf, sc)
             /\ cpu.s_prime = RunSum(sc, cpu.m_prime)
             /\ \A k \in 1..CpuK :
                   Buf(k, NaN) = RunAcc(cpu.i, 0, sc, cpu.m_prime, k)
    /\ blk.pc = "loop" =>
          \A r \in 1..ProblemSize0M :
             LET sc == TileSeenScores(r)
             IN /\ blk.m_prime[r] = MaxOver(NInf, sc)
                /\ blk.s_prime[r] = RunSum(sc, blk.m_prime[r])
                /\ (blk.iter_key_start > 0 /\ blk.iter_key_start < p.num_keys)
                      => \A k \in 1..p.head_dim_value :
                            output.data[OutOffset(r, k - 1) + 1] =
                               RunAcc(blk.batch_id, 0, sc, blk.m_prime[r], k)

\* C14's case: the second query row of the scalar form has folded two keys
\* that raised the maximum, in the buffer the first row used
C14_Witness ==
    /\ hpc = "kernel" /\ cpu.pc = "keys" /\ cpu.j = 1 /\ cpu.l = 2
    /\ Gt(cpu.m_prime, CpuScore(cpu.i, cpu.j, 0))

\* the workers of parallel_for
CpuWorkers == cpuq \cup {cpu}

\* C17: while parallel_for runs, the thread number of every worker indexes
\* inside buffer, two workers that still have elements to do use different
\* scratch rows, and the scratch row of a worker that is inside a query row
\* holds what this worker has accumulated for the row.
C17_ScratchRowExclusive ==
    (hpc = "kernel" /\ cpu.pc # "fork") =>
        /\ \A w \in CpuWorkers : BufRow(w) \in 0..(Size(buffer, 0) - 1)
        /\ \A w1 \in CpuWorkers, w2 \in CpuWorkers :
              (w1 # w2 /\ w1.i < w1.end /\ w2.i < w2.end)
                 => BufRow(w1) # BufRow(w2)
        /\ \A w \in CpuWorkers :
              w.pc = "keys" =>
                 At(buffer, BufRow(w), 0, 0, NaN) =
                    RunAcc(w.i, 0, SeenScores(w.i, w.j, w.l), w.m_prime, 1)

\* C17's case: two workers are inside a query row at the same time
C17_Witness ==
    /\ hpc = "kernel" /\ cpu.pc = "keys" /\ cpu.l >= 1
    /\ \E w \in cpuq : w.pc = "keys" /\ w.l >= 1

\* the key blocks among the first n the unit folded that hold key position l
BlocksWith(l, n) ==
    {m \in 1..n : /\ blk.blocks[m].start <= l
                  /\ l < blk.blocks[m].start + blk.blocks[m].n}

\* C16: a unit folds the key blocks in ascending position, each of
\* kKeysPerBlock keys but the final one, which ends at num_keys; the first
\* flag is set for the block at key 0 only and the last flag for the final
\* block only; when the loop ends every key position lies in exactly one
\* folded block; and after the epilogue of a single key block the output is
\* the normalised accumulator (attn @ V) / s_prime.
C16_KeyBlocksInOrder ==
    LET bs == blk.blocks
    IN /\ \A n \in 1..Len(bs) :
             /\ bs[n].start = (n - 1) * kKeysPerBlock
             /\ bs[n].n >= 1
             /\ bs[n].n = Min(kKeysPerBlock, p.num_keys - bs[n].start)
             /\ bs[n].first <=> (n = 1)
             /\ bs[n].last <=> (bs[n].start + bs[n].n = p.num_keys)
             /\ \A l \in 0..(bs[n].start + bs[n].n - 1) :
                   Cardinality(BlocksWith(l, n)) = 1
       /\ (blk.pc = "loop" /\ blk.iter_key_start >= p.num_keys /\ p.num_keys > 0)
             => /\ bs[Len(bs)].last
                /\ \A l \in 0..(p.num_keys - 1) :
                      Cardinality(BlocksWith(l, Len(bs))) = 1
       /\ (/\ blk.pc = "mm1" /\ blk.blockN >= NBlockN
           /\ bs[1].first /\ bs[1].last)
             => \A r \in 1..ProblemSize0M, k \in 0..(p.head_dim_value - 1) :
                   output.data[OutOffset(r, k) + 1] =
                      Div(AttnV(r, k, ProblemSize0N), blk.s_prime[r])

\* C16's case: two key blocks folded, the final one shorter than
\* kKeysPerBlock
C16_Witness ==
    /\ blk.pc = "loop" /\ blk.iter_key_start >= p.num_keys
    /\ Len(blk.blocks) = 2 /\ blk.blocks[2].n < kKeysPerBlock

\* C18: on an input attention accepts, every value[i][l][k] the scalar
\* kernel has read lies inside Value, and every row it has written lies
\* inside the output.
C18_AccessesInsideExtents ==
    /\ (hpc = "kernel" /\ cpu.pc = "keys" /\ cpu.l >= 1) =>
          /\ cpu.i < Size(value, 0)
          /\ cpu.l - 1 < Size(value, 1)
          /\ \A k \in 0..(CpuK - 1) : k < Size(value, 2)
    /\ (hpc = "kernel" /\ cpu.pc = "row" /\ cpu.j >= 1) =>
          /\ cpu.i < Size(res, 0)
          /\ cpu.j - 1 < Size(res, 1)
          /\ \A k \in 0..(CpuK - 1) : k < Size(res, 2)

\* values[b][l], dense[b][c][j] and output[b][i][j] of spmm_sputnik
SpValue(b, l) == sp.values.data[b * Size(sp.values, 1) + l + 1]
SpDense(b, c, j) == At(sp.dense_matrix, b, c, j, NaN)
SpOutput(b, i, j) == At(sp.output, b, i, j, NaN)

\* the sum over the nonzeros l of row i of values[b][l] * dense[b][col[l]][j]
RowSum(b, i, j) ==
    SumSeq([l \in 1..(sp.row_offsets[i + 2] - sp.row_offsets[i + 1]) |->
              LET nz == sp.row_offsets[i + 1] + l
              IN Mul(SpValue(b, nz - 1),
                     SpDense(b, sp.column_indices[nz], j))])

\* the sparse identity of the scenario: row_offsets = [0,1,2],
\* column_indices = [0,1], values = [1,1]
IsIdentity ==
    /\ sp.row_offsets = <<0, 1, 2>> /\ sp.column_indices = <<0, 1>>
    /\ SpmmBatch = 1 /\ sp.values.data = <<One, One>>

\* C12: once spmm_sputnik has returned, output[b][i][j] is the sum over the
\* nonzeros of row i of values[b][l] * dense[b][column_indices[l]][j]; a row
\* with no nonzeros is zero, and the sparse identity returns the dense
\* operand.
C12_SpmmIsSparseProduct ==
    sp.pc = "returned" =>
        /\ \A b \in 0..(SpmmBatch - 1), i \in 0..(sp.m - 1),
              j \in 0..(SpmmN - 1) :
              /\ SpOutput(b, i, j) = RowSum(b, i, j)
              /\ sp.row_offsets[i + 1] = sp.row_offsets[i + 2]
                    => SpOutput(b, i, j) = Zero
        /\ IsIdentity => sp.output.data = sp.dense_matrix.data

\* C12's case: the sparse identity times a dense 2x2 matrix has returned
C12_Witness ==
    /\ sp.pc = "returned" /\ IsIdentity
    /\ sp.dense_matrix.sizes = <<1, 2, 2>>
    /\ sp.output.data = <<Num(1), Num(2), Num(3), Num(4)>>

\* C13: with a batch size above 1 and a nonzero count that is no multiple of
\* 4 spmm_sputnik fails and never allocates its output; with batch size 1 it
\* never fails; the check is always reached; what it returns has shape
\* (batch, m, n).
C13_SpmmBatchCheck ==
    /\ (SpmmBatch > 1 /\ SpmmNonzeros % 4 # 0) =>
          /\ sp.pc \in {"check", "failed"}
          /\ sp.output = NoTensor
    /\ SpmmBatch = 1 => sp.pc # "failed"
    /\ sp.pc = "check" => ENABLED SpmmCheck
    /\ sp.pc = "returned" => sp.output.sizes = <<SpmmBatch, sp.m, SpmmN>>

\* C13's case: a call with two batch elements and two nonzeros has failed
C13_Witness ==
    sp.pc = "failed" /\ SpmmBatch = 2 /\ SpmmNonzeros = 2

\* two accesses of one barrier interval that race: the same part of shared
\* storage, two threads, one of them writing. The accesses one call of a
\* library component makes to its own storage are ordered by that component.
Conflict(a, b) ==
    /\ a.cell = b.cell
    /\ a.lane # b.lane
    /\ a.op = "W" \/ b.op = "W"
    /\ ~(a.call = b.call /\ a.call # "none")

\* the thread is between the barriers of lines 548 and 555
InCommit(l) == l.pc = "commit" \/ (l.pc = "__syncthreads" /\ l.line = 555)

\* the thread is between the barriers of lines 336 and 390
InMM0(l) == l.pc = "mm0" \/ (l.pc = "__syncthreads" /\ l.line = 390)

\* the thread has left the key loop
PastKeys(l) == l.pc \in {"lse", "done"}

\* C15: in every interleaving of the threads of one block, no two threads
\* access the same part of shared storage (si, mi, m_prime, s_prime, the
\* storage mm0 shares with after_mm0, the storage mm1.mm shares with
\* mm1.epilogue) between two barriers when one of them writes; while a thread
\* copies mi to m_prime every thread has finished the epilogue of that key
\* block, while a thread runs the first matmul every thread has made the copy
\* of the previous key block, and a thread reads m_prime and s_prime for
\* logsumexp only after all threads passed the barrier of line 555 of the
\* last key block.
C15_BarrierSeparated ==
    /\ \A a, b \in smem : ~Conflict(a, b)
    /\ \A t, u \in Lanes :
         /\ InCommit(lane[t]) =>
              /\ InCommit(lane[u])
              /\ lane[u].iter_key_start = lane[t].iter_key_start
         /\ InMM0(lane[t]) =>
              /\ InMM0(lane[u])
              /\ lane[u].iter_key_start = lane[t].iter_key_start
         /\ (PastKeys(lane[t]) /\ p.num_keys > 0) =>
              /\ PastKeys(lane[u])
              /\ lane[u].bars # <<>>
              /\ lane[u].bars[Len(lane[u].bars)] = 555

\* C15 witness: in the second key block one thread has copied its mi to
\* m_prime while another, having read m_prime in the epilogue before the
\* barrier, has not yet
C15_Witness ==
    \E t, u \in Lanes :
        /\ lane[t].iter_key_start > 0
        /\ lane[t].pc = "__syncthreads" /\ lane[t].line = 555
        /\ lane[u].pc = "commit"
        /\ SmemAccess(<<"m_prime", t>>, t, "W", "none") \in smem

\* the threads have passed the same barriers, wait at the same barrier of the
\* same iteration, and none has returned while another waits
SameBarriers ==
    \A t, u \in Lanes :
        /\ lane[t].bars = lane[u].bars
        /\ (lane[t].pc = "__syncthreads" /\ lane[u].pc = "__syncthreads") =>
              /\ lane[t].line = lane[u].line
              /\ lane[t].iter_key_start = lane[u].iter_key_start
              /\ lane[t].blockN = lane[u].blockN
        /\ lane[t].pc = "done" => lane[u].pc # "__syncthreads"

AllLanesDone == \A t \in Lanes : lane[t].pc = "done"

\* C19: for every num_keys >= 0, head_dim_value and thread id the threads of
\* one block pass the same sequence of barriers, with the same key-block and
\* column-block counters, and every thread eventually returns.
C19_AllLanesTerminate == []SameBarriers /\ <>AllLanesDone

\* C19 witness: all threads have returned after more than one key block and
\* more than one column block, having passed the barriers of lines 459 and 478
C19_Witness ==
    /\ AllLanesDone
    /\ p.num_keys > kKeysPerBlock
    /\ NBlockN > 1
    /\ ~kPreloadV
    /\ \A t \in Lanes : Len(lane[t].bars) > 0

=============================================================================
